---------------------------- MODULE Spec2Model ----------------------------
(***************************************************************************)
(* South Pole traverse emissions calculator                                *)
(* (src/argonne_final/south_pole_traverse.py).                             *)
(*                                                                         *)
(* The module is a library of pure functions over numbers and dicts.  A    *)
(* behaviour of the model is one call: the initial state holds the         *)
(* function to call and its arguments, the function's action runs its body *)
(* and stores what it returns or the exception it raises.                  *)
(*                                                                         *)
(* Objects.  sum_emissions is handed dict objects, and the same object may *)
(* be handed to it more than once: heap holds the dict objects of its call *)
(* (an object is its index in heap), and the call's arguments name them.   *)
(*                                                                         *)
(* Numbers.  Python's numbers are modelled as exact rationals (a sign, a   *)
(* numerator and a denominator, both naturals of unbounded size), so the   *)
(* arithmetic is the arithmetic of the formulas without the rounding of    *)
(* IEEE doubles.  TLC's integers are 32 bits wide and the program's        *)
(* constants (89.77044869 g/mmBtu times 138700 Btu/gallon ...) leave that  *)
(* range at once, so a natural is a little-endian sequence of limbs in     *)
(* base 10000.                                                             *)
(***************************************************************************)
EXTENDS Integers, Sequences, FiniteSets, TLC

VARIABLES fn, args, result, pc, heap

vars == <<fn, args, result, pc, heap>>

-----------------------------------------------------------------------------
(* Naturals of unbounded size: <<>> is 0, no high zero limb.               *)

Limb == 10000

RECURSIVE NatOf(_)
NatOf(n) == IF n = 0 THEN <<>> ELSE <<n % Limb>> \o NatOf(n \div Limb)

RECURSIVE NatAddC(_, _, _)
NatAddC(a, b, c) ==
    IF a = <<>> /\ b = <<>> THEN (IF c = 0 THEN <<>> ELSE <<c>>)
    ELSE IF a = <<>> /\ c = 0 THEN b
    ELSE IF b = <<>> /\ c = 0 THEN a
    ELSE LET x == IF a = <<>> THEN 0 ELSE Head(a)
             y == IF b = <<>> THEN 0 ELSE Head(b)
             s == x + y + c
         IN  <<s % Limb>> \o NatAddC(IF a = <<>> THEN a ELSE Tail(a),
                                     IF b = <<>> THEN b ELSE Tail(b),
                                     s \div Limb)

NatAdd(a, b) == NatAddC(a, b, 0)

RECURSIVE NatStrip(_)
NatStrip(a) ==
    IF a = <<>> THEN a
    ELSE IF a[Len(a)] = 0 THEN NatStrip(SubSeq(a, 1, Len(a) - 1))
    ELSE a

\* a - b for a >= b, before the high zero limbs are stripped
RECURSIVE NatSubB(_, _, _)
NatSubB(a, b, brw) ==
    IF a = <<>> THEN <<>>
    ELSE IF b = <<>> /\ brw = 0 THEN a
    ELSE LET y == IF b = <<>> THEN 0 ELSE Head(b)
             d == Head(a) - y - brw
         IN  <<IF d < 0 THEN d + Limb ELSE d>>
                 \o NatSubB(Tail(a), IF b = <<>> THEN b ELSE Tail(b),
                            IF d < 0 THEN 1 ELSE 0)

NatSub(a, b) == NatStrip(NatSubB(a, b, 0))

\* -1, 0, 1 as a < b, a = b, a > b
RECURSIVE NatCmpAt(_, _, _)
NatCmpAt(a, b, i) ==
    IF i = 0 THEN 0
    ELSE IF a[i] < b[i] THEN -1
    ELSE IF a[i] > b[i] THEN 1
    ELSE NatCmpAt(a, b, i - 1)

NatCmp(a, b) ==
    IF Len(a) < Len(b) THEN -1
    ELSE IF Len(a) > Len(b) THEN 1
    ELSE NatCmpAt(a, b, Len(a))

\* a times one limb d (0 < d < Limb), plus the carry c
RECURSIVE NatMulLimb(_, _, _)
NatMulLimb(a, d, c) ==
    IF a = <<>> THEN (IF c = 0 THEN <<>> ELSE <<c>>)
    ELSE LET p == Head(a) * d + c
         IN  <<p % Limb>> \o NatMulLimb(Tail(a), d, p \div Limb)

RECURSIVE NatMulSeq(_, _)
NatMulSeq(a, b) ==
    IF b = <<>> THEN <<>>
    ELSE LET rest == NatMulSeq(a, Tail(b))
             high == IF rest = <<>> THEN rest ELSE <<0>> \o rest
         IN  IF Head(b) = 0 THEN high
             ELSE NatAdd(NatMulLimb(a, Head(b), 0), high)

NatMul(a, b) ==
    IF a = <<>> \/ b = <<>> THEN <<>>
    ELSE IF b = <<1>> THEN a
    ELSE IF a = <<1>> THEN b
    ELSE IF Len(a) < Len(b) THEN NatMulSeq(b, a)
    ELSE NatMulSeq(a, b)

-----------------------------------------------------------------------------
(* Rationals: [neg, num, den] with den # 0; zero has neg = FALSE.  A       *)
(* fraction is not kept in lowest terms (only a common factor of Limb is   *)
(* cancelled), so two numbers are compared with NumEq, never with =.       *)

RECURSIVE Lower(_, _)
Lower(n, d) ==
    IF n # <<>> /\ Head(n) = 0 /\ Head(d) = 0 /\ Len(d) > 1
    THEN Lower(Tail(n), Tail(d))
    ELSE [num |-> n, den |-> d]

Frac(neg, n, d) ==
    IF n = <<>> THEN [neg |-> FALSE, num |-> <<>>, den |-> <<1>>]
    ELSE LET l == Lower(n, d) IN [neg |-> neg, num |-> l.num, den |-> l.den]

\* the integer literal i
Int2Num(i) == Frac(i < 0, NatOf(IF i < 0 THEN -i ELSE i), <<1>>)

RECURSIVE Pow10(_)
Pow10(k) == IF k = 0 THEN <<1>> ELSE NatMulLimb(Pow10(k - 1), 10, 0)

\* the decimal literal w.f with k digits after the point: Dec(29, 8, 1) is 29.8,
\* Dec(0, 355609, 9) is 0.000355609
Dec(w, f, k) == Frac(FALSE, NatAdd(NatMul(NatOf(w), Pow10(k)), NatOf(f)), Pow10(k))

\* the quotient of two integer literals, n / d with d > 0
Quot(n, d) == Frac(n < 0, NatOf(IF n < 0 THEN -n ELSE n), NatOf(d))

IsZero(x) == x.num = <<>>

NumMul(x, y) ==
    Frac(x.neg # y.neg, NatMul(x.num, y.num), NatMul(x.den, y.den))

\* x / y for y # 0 (the callers test y first: Python raises ZeroDivisionError)
NumDiv(x, y) ==
    Frac(x.neg # y.neg, NatMul(x.num, y.den), NatMul(x.den, y.num))

NumAdd(x, y) ==
    IF IsZero(x) THEN y
    ELSE IF IsZero(y) THEN x
    ELSE LET same == x.den = y.den
             a == IF same THEN x.num ELSE NatMul(x.num, y.den)
             b == IF same THEN y.num ELSE NatMul(y.num, x.den)
             d == IF same THEN x.den ELSE NatMul(x.den, y.den)
         IN  IF x.neg = y.neg THEN Frac(x.neg, NatAdd(a, b), d)
             ELSE LET c == NatCmp(a, b)
                  IN  IF c = 0 THEN Frac(FALSE, <<>>, <<1>>)
                      ELSE IF c > 0 THEN Frac(x.neg, NatSub(a, b), d)
                      ELSE Frac(y.neg, NatSub(b, a), d)

NumNeg(x) == IF IsZero(x) THEN x ELSE [x EXCEPT !.neg = ~x.neg]

NumEq(x, y) ==
    /\ x.neg = y.neg
    /\ NatMul(x.num, y.den) = NatMul(y.num, x.den)

NumGeq0(x) == ~x.neg

-----------------------------------------------------------------------------
(* Dicts are functions from keys to values; two emission records are equal *)
(* when they have the same keys and equal numbers under each.              *)

RecEq(r, s) ==
    /\ DOMAIN r = DOMAIN s
    /\ \A p \in DOMAIN r : NumEq(r[p], s[p])

Pollutants == {"CO2", "CH4", "N2O"}

\* what a call leaves behind: the value it returns, or the exception it raises
Return(v) == [status |-> "ok", value |-> v]
Raise(e) == [status |-> e]

\* the loaded and the empty direction of one truck trip over one mile, in mmBtu
\* times the factor: f * btu_per_mile / 138700 * 138700 / 1e6
TruckPerMile(factor, btu_per_mile) ==
    NumDiv(NumMul(NumMul(factor, NumDiv(btu_per_mile, Int2Num(138700))),
                  Int2Num(138700)), Int2Num(1000000))

TruckFactor(p) ==
    CASE p = "CO2" -> Dec(89, 77044869, 8)
      [] p = "CH4" -> Dec(0, 109408298, 9)
      [] p = "N2O" -> Dec(0, 355609, 9)

\* truck emissions with the trip count applied to the loaded direction only
calculate_truck_emissions_one_return(miles, cargo_weight_in_tons, quantity) ==
    [emission \in Pollutants |->
        NumAdd(NumMul(NumMul(TruckPerMile(TruckFactor(emission),
                                 NumMul(Int2Num(684), cargo_weight_in_tons)), miles),
                      quantity),
               NumMul(TruckPerMile(TruckFactor(emission), Int2Num(13567)), miles))]

\* truck emissions with the empty return charged per ton of cargo as well
calculate_truck_emissions_loaded_return(miles, cargo_weight_in_tons, quantity) ==
    [emission \in Pollutants |->
        NumMul(NumAdd(NumMul(TruckPerMile(TruckFactor(emission),
                                 NumMul(Int2Num(684), cargo_weight_in_tons)), miles),
                      NumMul(TruckPerMile(TruckFactor(emission),
                                 NumMul(Int2Num(13567), cargo_weight_in_tons)), miles)),
               quantity)]

calculate_truck_emissions(miles, cargo_weight_in_tons, quantity) ==
    LET btu_per_gallon_diesel == Int2Num(138700)
        energy_intensity_truck_origin_to_destination == Int2Num(684)
        btu_per_mile_empty == Int2Num(13567)
        emissions_factors_truck ==
            [p \in Pollutants |->
                CASE p = "CO2" -> Dec(89, 77044869, 8)
                  [] p = "CH4" -> Dec(0, 109408298, 9)
                  [] p = "N2O" -> Dec(0, 355609, 9)]
        btu_per_mile_truck_origin_to_destination ==
            NumMul(energy_intensity_truck_origin_to_destination, cargo_weight_in_tons)
        gallons_per_mile_truck_origin_to_destination ==
            NumDiv(btu_per_mile_truck_origin_to_destination, btu_per_gallon_diesel)
        gallons_per_mile_empty == NumDiv(btu_per_mile_empty, btu_per_gallon_diesel)
        emissions_origin_to_destination(factor) ==
            NumMul(NumDiv(NumMul(NumMul(factor,
                gallons_per_mile_truck_origin_to_destination),
                btu_per_gallon_diesel), Int2Num(1000000)), miles)
        emissions_empty_back(factor) ==
            NumMul(NumDiv(NumMul(NumMul(factor, gallons_per_mile_empty),
                btu_per_gallon_diesel), Int2Num(1000000)), miles)
    IN  [emission \in DOMAIN emissions_factors_truck |->
            NumMul(NumAdd(emissions_origin_to_destination(emissions_factors_truck[emission]),
                          emissions_empty_back(emissions_factors_truck[emission])),
                   quantity)]


\* CO2-equivalent conversion with .get(key, 0) for [key] and the AR5 factor 28
\* for CH4
calculate_co2_equivalent_lenient(emissions_dictionary) ==
    LET get(k) == IF k \in DOMAIN emissions_dictionary
                  THEN emissions_dictionary[k] ELSE Int2Num(0)
    IN  Return(NumAdd(NumAdd(get("CO2"), NumMul(get("CH4"), Dec(29, 8, 1))),
                      NumMul(get("N2O"), Int2Num(273))))

calculate_co2_equivalent_ar5(emissions_dictionary) ==
    IF ~(Pollutants \subseteq DOMAIN emissions_dictionary) THEN Raise("KeyError")
    ELSE Return(NumAdd(NumAdd(emissions_dictionary["CO2"],
                              NumMul(emissions_dictionary["CH4"], Int2Num(28))),
                       NumMul(emissions_dictionary["N2O"], Int2Num(273))))

calculate_co2_equivalent(emissions_dictionary) ==
    IF "CO2" \notin DOMAIN emissions_dictionary THEN Raise("KeyError")
    ELSE IF "CH4" \notin DOMAIN emissions_dictionary THEN Raise("KeyError")
    ELSE IF "N2O" \notin DOMAIN emissions_dictionary THEN Raise("KeyError")
    ELSE LET co2_eq_co2 == NumMul(emissions_dictionary["CO2"], Int2Num(1))
             co2_eq_ch4 == NumMul(emissions_dictionary["CH4"], Dec(29, 8, 1))
             co2_eq_n2o == NumMul(emissions_dictionary["N2O"], Int2Num(273))
             total_co2_eq == NumAdd(NumAdd(co2_eq_co2, co2_eq_ch4), co2_eq_n2o)
         IN  Return(total_co2_eq)

\* tanker emissions with the back-haul subtracted from the loaded leg
calculate_tanker_emissions_net(miles, cargo_weight, number_of_tankers) ==
    LET factor(p) == CASE p = "CO2" -> Dec(262, 9991694, 7)
                       [] p = "CH4" -> Dec(0, 293135661, 9)
                       [] p = "N2O" -> Dec(0, 6037729, 9)
        per_mile(p, btu_per_mile) ==
            NumDiv(NumMul(NumMul(factor(p), NumDiv(btu_per_mile, Int2Num(149700))),
                          Int2Num(149700)), Int2Num(1000000))
        back_haul == NumDiv(NumMul(NumMul(Int2Num(5439), Int2Num(19170)), Dec(0, 70, 2)),
                            Int2Num(20))
    IN  [pollutant \in Pollutants |->
            NumMul(NumAdd(NumMul(per_mile(pollutant, NumMul(Int2Num(43), cargo_weight)), miles),
                          NumNeg(NumMul(per_mile(pollutant, back_haul), miles))),
                   number_of_tankers)]

calculate_tanker_emissions(miles, cargo_weight, number_of_tankers) ==
    LET btu_per_gallon_residual_oil == Int2Num(149700)
        energy_intensity_tanker_origin_to_destination == Int2Num(43)
        load_factor_tanker_back_haul == Dec(0, 70, 2)
        hp_tanker == Int2Num(19170)
        average_speed_tanker == Int2Num(20)
        energy_consumption_tanker == Int2Num(5439)
        emissions_factors_tanker ==
            [p \in Pollutants |->
                CASE p = "CO2" -> Dec(262, 9991694, 7)
                  [] p = "CH4" -> Dec(0, 293135661, 9)
                  [] p = "N2O" -> Dec(0, 6037729, 9)]
        btu_per_mile_tanker_origin_to_destination ==
            NumMul(energy_intensity_tanker_origin_to_destination, cargo_weight)
        btu_per_mile_tanker_back_haul ==
            NumDiv(NumMul(NumMul(energy_consumption_tanker, hp_tanker),
                          load_factor_tanker_back_haul),
                   average_speed_tanker)
        gallons_per_mile_tanker_origin_to_destination ==
            NumDiv(btu_per_mile_tanker_origin_to_destination, btu_per_gallon_residual_oil)
        gallons_per_mile_tanker_back_haul ==
            NumDiv(btu_per_mile_tanker_back_haul, btu_per_gallon_residual_oil)
        emissions_origin_to_destination(factor) ==
            NumMul(NumDiv(NumMul(NumMul(factor,
                gallons_per_mile_tanker_origin_to_destination),
                btu_per_gallon_residual_oil), Int2Num(1000000)), miles)
        emissions_back_haul(factor) ==
            NumMul(NumDiv(NumMul(NumMul(factor, gallons_per_mile_tanker_back_haul),
                btu_per_gallon_residual_oil), Int2Num(1000000)), miles)
    IN  [pollutant \in DOMAIN emissions_factors_tanker |->
            NumMul(NumAdd(emissions_origin_to_destination(emissions_factors_tanker[pollutant]),
                          emissions_back_haul(emissions_factors_tanker[pollutant])),
                   number_of_tankers)]

\* calculate_fuelused_emissions with the truck's gallons turned into mmBtu at
\* the energy density of residual oil
calculate_fuelused_emissions_resid_density(miles_ocean_tanker, miles_truck) ==
    LET btu_per_gallon_diesel == Int2Num(138700)
        btu_per_gallon_resid == Int2Num(149700)
        energy_consumption_btu_hphr == Int2Num(5439)
        engine_efficiency == Dec(0, 50, 2)
        average_speed_mph_tanker == Int2Num(20)
        mpg_truck == Dec(5, 6, 1)
        gallons_per_hour_per_hp_tanker ==
            NumDiv(energy_consumption_btu_hphr,
                   NumMul(btu_per_gallon_resid, engine_efficiency))
        mpg_tanker == NumDiv(average_speed_mph_tanker, gallons_per_hour_per_hp_tanker)
        gallons_per_mile_tanker == NumDiv(Int2Num(1), mpg_tanker)
        gallons_per_mile_truck == NumDiv(Int2Num(1), mpg_truck)
        total_fuel_consumption_tanker == NumMul(miles_ocean_tanker, gallons_per_mile_tanker)
        total_fuel_consumption_truck == NumMul(miles_truck, gallons_per_mile_truck)
        total_fuel_consumption_mmBtu_tanker ==
            NumDiv(NumMul(total_fuel_consumption_tanker, btu_per_gallon_resid),
                   Int2Num(1000000))
        total_fuel_consumption_mmBtu_truck ==
            NumDiv(NumMul(total_fuel_consumption_truck, btu_per_gallon_resid),
                   Int2Num(1000000))
        emissions_factors ==
            [diesel |-> [p \in Pollutants |->
                            CASE p = "CO2" -> Dec(12747, 98, 2)
                              [] p = "CH4" -> Dec(109, 519, 3)
                              [] p = "N2O" -> Dec(0, 233, 3)],
             resid  |-> [p \in Pollutants |->
                            CASE p = "CO2" -> Dec(9670, 93, 2)
                              [] p = "CH4" -> Dec(100, 419, 3)
                              [] p = "N2O" -> Dec(0, 162, 3)]]
    IN  [pollutant \in Pollutants |->
            NumAdd(NumMul(total_fuel_consumption_mmBtu_tanker,
                          emissions_factors.resid[pollutant]),
                   NumMul(total_fuel_consumption_mmBtu_truck,
                          emissions_factors.diesel[pollutant]))]

calculate_fuelused_emissions(miles_ocean_tanker, miles_truck) ==
    LET btu_per_gallon_diesel == Int2Num(138700)
        btu_per_gallon_resid == Int2Num(149700)
        energy_consumption_btu_hphr == Int2Num(5439)
        engine_efficiency == Dec(0, 50, 2)
        average_speed_mph_tanker == Int2Num(20)
        mpg_truck == Dec(5, 6, 1)
        gallons_per_hour_per_hp_tanker ==
            NumDiv(energy_consumption_btu_hphr,
                   NumMul(btu_per_gallon_resid, engine_efficiency))
        mpg_tanker == NumDiv(average_speed_mph_tanker, gallons_per_hour_per_hp_tanker)
        gallons_per_mile_tanker == NumDiv(Int2Num(1), mpg_tanker)
        gallons_per_mile_truck == NumDiv(Int2Num(1), mpg_truck)
        total_fuel_consumption_tanker == NumMul(miles_ocean_tanker, gallons_per_mile_tanker)
        total_fuel_consumption_truck == NumMul(miles_truck, gallons_per_mile_truck)
        total_fuel_consumption_mmBtu_tanker ==
            NumDiv(NumMul(total_fuel_consumption_tanker, btu_per_gallon_resid),
                   Int2Num(1000000))
        total_fuel_consumption_mmBtu_truck ==
            NumDiv(NumMul(total_fuel_consumption_truck, btu_per_gallon_diesel),
                   Int2Num(1000000))
        emissions_factors ==
            [diesel |-> [p \in Pollutants |->
                            CASE p = "CO2" -> Dec(12747, 98, 2)
                              [] p = "CH4" -> Dec(109, 519, 3)
                              [] p = "N2O" -> Dec(0, 233, 3)],
             resid  |-> [p \in Pollutants |->
                            CASE p = "CO2" -> Dec(9670, 93, 2)
                              [] p = "CH4" -> Dec(100, 419, 3)
                              [] p = "N2O" -> Dec(0, 162, 3)]]
    IN  [pollutant \in Pollutants |->
            NumAdd(NumMul(total_fuel_consumption_mmBtu_tanker,
                          emissions_factors.resid[pollutant]),
                   NumMul(total_fuel_consumption_mmBtu_truck,
                          emissions_factors.diesel[pollutant]))]

calculate_emissions_from_diesel(gallons_diesel) ==
    LET btu_per_gallon_diesel == Int2Num(138700)
        emissions_factors_diesel ==
            [p \in Pollutants |->
                CASE p = "CO2" -> Dec(12747, 98, 2)
                  [] p = "CH4" -> Dec(109, 519, 3)
                  [] p = "N2O" -> Dec(0, 233, 3)]
        total_energy_mmBtu ==
            NumDiv(NumMul(gallons_diesel, btu_per_gallon_diesel), Int2Num(1000000))
    IN  [pollutant \in DOMAIN emissions_factors_diesel |->
            NumMul(total_energy_mmBtu, emissions_factors_diesel[pollutant])]

\* embodied_renewable_emissions with the diesel record converted to kilograms,
\* as the comment above its last loop announces
embodied_renewable_emissions_diesel_in_kg(target_solar, target_wind, target_bess_energy, target_diesel) ==
    LET from_diesel == calculate_emissions_from_diesel(target_diesel)
    IN  [bess   |-> NumMul(target_bess_energy, Int2Num(220000)),
         solar  |-> NumMul(target_solar, Int2Num(1100000)),
         wind   |-> NumMul(target_wind, Int2Num(683700)),
         diesel |-> [pollutant \in DOMAIN from_diesel |->
                        NumDiv(from_diesel[pollutant], Int2Num(1000))]]

embodied_renewable_emissions(target_solar, target_wind, target_bess_energy, target_diesel) ==
    LET emissions_factor_bess == Int2Num(220000)
        emissions_factor_solar == Int2Num(1100000)
        emissions_factor_wind == Int2Num(683700)
        embodied_emissions_bess == NumMul(target_bess_energy, emissions_factor_bess)
        embodied_emissions_solar == NumMul(target_solar, emissions_factor_solar)
        embodied_emissions_wind == NumMul(target_wind, emissions_factor_wind)
        from_diesel == calculate_emissions_from_diesel(target_diesel)
        embodied_emissions_diesel == [pollutant \in DOMAIN from_diesel |-> from_diesel[pollutant]]
    IN  [bess   |-> embodied_emissions_bess,
         solar  |-> embodied_emissions_solar,
         wind   |-> embodied_emissions_wind,
         diesel |-> embodied_emissions_diesel]

\* sum_emissions with "=" for "+=": the last record's amount replaces the total
RECURSIVE SumItems_overwrite(_, _, _)
SumItems_overwrite(total_emissions, emissions, todo) ==
    IF todo = {} THEN total_emissions
    ELSE LET pollutant == CHOOSE k \in todo : TRUE
         IN  SumItems_overwrite(
                 [k \in DOMAIN total_emissions \cup {pollutant} |->
                     IF k = pollutant THEN emissions[pollutant] ELSE total_emissions[k]],
                 emissions, todo \ {pollutant})

\* for pollutant, amount in emissions.items(): add amount under pollutant, or
\* enter it when total_emissions has no such key yet
RECURSIVE SumItems(_, _, _)
SumItems(total_emissions, emissions, todo) ==
    IF todo = {} THEN total_emissions
    ELSE LET pollutant == CHOOSE k \in todo : TRUE
             amount == emissions[pollutant]
         IN  SumItems(IF pollutant \in DOMAIN total_emissions
                      THEN [total_emissions EXCEPT ![pollutant] = NumAdd(@, amount)]
                      ELSE (pollutant :> amount) @@ total_emissions,
                      emissions, todo \ {pollutant})

RECURSIVE SumDicts(_, _, _)
SumDicts(total_emissions, emission_dicts, i) ==
    IF i > Len(emission_dicts) THEN total_emissions
    ELSE SumDicts(SumItems(total_emissions, emission_dicts[i], DOMAIN emission_dicts[i]),
                  emission_dicts, i + 1)

\* sum_emissions(*emission_dicts): the arguments are the sequence emission_dicts
sum_emissions(emission_dicts) == SumDicts(<<>>, emission_dicts, 1)

\* the loops of sum_emissions over objects: the argument objects refs are read
\* through .items(), and the object total_emissions is the one written
sum_emissions_into(objects, total_emissions, refs) ==
    [objects EXCEPT ![total_emissions] =
        SumDicts(@, [i \in DOMAIN refs |-> objects[refs[i]]], 1)]

\* sum_emissions that takes its first argument as the running total
sum_emissions_call_first_as_total(objects, refs) ==
    IF refs = <<>>
    THEN [heap |-> Append(objects, <<>>), ref |-> Len(objects) + 1]
    ELSE [heap |-> sum_emissions_into(objects, Head(refs), Tail(refs)),
          ref |-> Head(refs)]

\* the call sum_emissions(*refs): total_emissions = {} is a new object, the
\* loops fill it, and it is the object returned
sum_emissions_call(objects, refs) ==
    LET total_emissions == Len(objects) + 1
    IN  [heap |-> sum_emissions_into(Append(objects, <<>>), total_emissions, refs),
         ref |-> total_emissions]

\* isinstance(value, dict): a number is the record [neg, num, den]
IsDict(value) == DOMAIN value # {"neg", "num", "den"}

\* for pollutant, amount in d.items(): total_emissions[pollutant] += amount,
\* a KeyError when total_emissions has no such key; acc is the running result
\* consolidation that reads the three pollutants of every record by key
\* (d['CO2'], d['CH4'], d['N2O']): a KeyError when one is missing
RECURSIVE AddItems_required_keys(_, _, _)
AddItems_required_keys(acc, d, todo) ==
    IF acc.status # "ok" THEN acc
    ELSE IF ~(Pollutants \subseteq DOMAIN d) THEN Raise("KeyError")
    ELSE IF todo = {} THEN acc
    ELSE LET pollutant == CHOOSE k \in todo : TRUE
         IN  AddItems_required_keys(
                 IF pollutant \in DOMAIN acc.value
                 THEN Return([acc.value EXCEPT ![pollutant] = NumAdd(@, d[pollutant])])
                 ELSE acc,
                 d, todo \ {pollutant})

RECURSIVE AddItems(_, _, _)
AddItems(acc, d, todo) ==
    IF acc.status # "ok" \/ todo = {} THEN acc
    ELSE LET pollutant == CHOOSE k \in todo : TRUE
             amount == d[pollutant]
         IN  AddItems(IF pollutant \in DOMAIN acc.value
                      THEN Return([acc.value EXCEPT ![pollutant] = NumAdd(@, amount)])
                      ELSE Raise("KeyError"),
                      d, todo \ {pollutant})

RECURSIVE AddTransport(_, _, _)
AddTransport(acc, transport_emissions, todo) ==
    IF acc.status # "ok" \/ todo = {} THEN acc
    ELSE LET unit == CHOOSE u \in todo : TRUE
             unit_emissions == transport_emissions[unit]
         IN  AddTransport(AddItems(acc, unit_emissions, DOMAIN unit_emissions),
                          transport_emissions, todo \ {unit})

\* consolidation that spreads a bare scalar over every pollutant
RECURSIVE AddAdditional_scalar_everywhere(_, _, _)
AddAdditional_scalar_everywhere(acc, additional_emissions, todo) ==
    IF acc.status # "ok" \/ todo = {} THEN acc
    ELSE LET key == CHOOSE k \in todo : TRUE
             value == additional_emissions[key]
         IN  AddAdditional_scalar_everywhere(
                 IF IsDict(value)
                 THEN AddItems(acc, value, DOMAIN value)
                 ELSE Return([p \in DOMAIN acc.value |-> NumAdd(acc.value[p], value)]),
                 additional_emissions, todo \ {key})

RECURSIVE AddAdditional(_, _, _)
AddAdditional(acc, additional_emissions, todo) ==
    IF acc.status # "ok" \/ todo = {} THEN acc
    ELSE LET key == CHOOSE k \in todo : TRUE
             value == additional_emissions[key]
         IN  AddAdditional(IF IsDict(value)
                           THEN AddItems(acc, value, DOMAIN value)
                           ELSE Return([acc.value EXCEPT !["CO2"] = NumAdd(@, value)]),
                           additional_emissions, todo \ {key})

consolidate_scenario_emissions(transport_emissions, additional_emissions) ==
    LET total_emissions == [p \in Pollutants |-> Int2Num(0)]
        after_transport ==
            AddTransport(Return(total_emissions), transport_emissions,
                         DOMAIN transport_emissions)
    IN  AddAdditional(after_transport, additional_emissions, DOMAIN additional_emissions)

(* transportation_scenario_emissions, component by component.  Each trip   *)
(* is the sum of its three legs; a division by zero on the way raises      *)
(* ZeroDivisionError (Python's / on ints and floats).                      *)

\* the wind trip with the division guarded: no turbines when turbine_power is 0,
\* and a record of zeros for the trip
wind_trip_emissions_guarded(target_wind, turbine_power) ==
    LET num_turbines == IF IsZero(turbine_power) THEN Int2Num(0)
                        ELSE NumDiv(target_wind, turbine_power)
        total_weight_turbines == NumMul(num_turbines, Dec(19, 8, 1))
    IN  IF IsZero(num_turbines) THEN Return([p \in Pollutants |-> Int2Num(0)])
        ELSE Return(sum_emissions(<<
            calculate_tanker_emissions(Int2Num(6900), total_weight_turbines, Int2Num(1)),
            calculate_tanker_emissions(Int2Num(2415),
                NumDiv(total_weight_turbines, Int2Num(2)), Int2Num(2)),
            calculate_truck_emissions(Int2Num(1030),
                NumDiv(total_weight_turbines, NumMul(num_turbines, Int2Num(7))),
                NumMul(num_turbines, Int2Num(7)))>>))

\* lines 476-477 and 492-497
wind_trip_emissions(target_wind, turbine_power) ==
    LET nps_100c_24_weight == Dec(19, 8, 1)
        num_turbines == NumDiv(target_wind, turbine_power)
        total_weight_turbines == NumMul(num_turbines, nps_100c_24_weight)
    IN  \* line 476: target_wind / turbine_power
        IF IsZero(turbine_power) THEN Raise("ZeroDivisionError")
        \* line 496: total_weight_turbines / (num_turbines * 7)
        ELSE IF IsZero(NumMul(num_turbines, Int2Num(7))) THEN Raise("ZeroDivisionError")
        ELSE Return(sum_emissions(<<
            calculate_tanker_emissions(Int2Num(6900), total_weight_turbines, Int2Num(1)),
            calculate_tanker_emissions(Int2Num(2415),
                NumDiv(total_weight_turbines, Int2Num(2)), Int2Num(2)),
            calculate_truck_emissions(Int2Num(1030),
                NumDiv(total_weight_turbines, NumMul(num_turbines, Int2Num(7))),
                NumMul(num_turbines, Int2Num(7)))>>))

\* the pv trip with the whole cargo on each of the nine trucks
pv_trip_emissions_undivided(target_solar) ==
    LET total_tons_pv == NumDiv(NumMul(target_solar, Int2Num(160)), Int2Num(907185))
    IN  Return(sum_emissions(<<
            calculate_tanker_emissions(Int2Num(6900), total_tons_pv, Int2Num(1)),
            calculate_tanker_emissions(Int2Num(2415),
                NumDiv(total_tons_pv, Int2Num(2)), Int2Num(2)),
            calculate_truck_emissions(Int2Num(1030), total_tons_pv, Int2Num(9))>>))

\* lines 466, 480-482 and 500-506
pv_trip_emissions(target_solar) ==
    LET pv_g_kw == Int2Num(160)
        total_grams_pv == NumMul(target_solar, pv_g_kw)
        total_tons_pv == NumDiv(total_grams_pv, Int2Num(907185))
    IN  Return(sum_emissions(<<
            calculate_tanker_emissions(Int2Num(6900), total_tons_pv, Int2Num(1)),
            calculate_tanker_emissions(Int2Num(2415),
                NumDiv(total_tons_pv, Int2Num(2)), Int2Num(2)),
            calculate_truck_emissions(Int2Num(1030),
                NumDiv(total_tons_pv, Int2Num(9)), Int2Num(9))>>))

\* lines 469-470, 485-487 and 509-513
bess_trip_emissions(target_bess_energy) ==
    LET bess_container_weight_kg == Int2Num(18000)
        bess_energy_capacity_kwh == Int2Num(1240)
        num_bess_units == NumDiv(target_bess_energy, bess_energy_capacity_kwh)
        total_weight_bess_tons ==
            NumMul(num_bess_units, NumDiv(bess_container_weight_kg, Int2Num(1000)))
    IN  \* line 512: total_weight_bess_tons / num_bess_units
        IF IsZero(num_bess_units) THEN Raise("ZeroDivisionError")
        ELSE Return(sum_emissions(<<
            calculate_tanker_emissions(Int2Num(6900), total_weight_bess_tons, Int2Num(1)),
            calculate_tanker_emissions(Int2Num(2415),
                NumDiv(total_weight_bess_tons, Int2Num(2)), Int2Num(2)),
            calculate_truck_emissions(Int2Num(100),
                NumDiv(total_weight_bess_tons, num_bess_units), num_bess_units)>>))

\* lines 489 and 516-520
diesel_trip_emissions(target_diesel) ==
    LET total_weight_diesel_tons ==
            NumDiv(NumMul(target_diesel, Dec(6, 5, 1)), Int2Num(2000))
    IN  Return(sum_emissions(<<
            calculate_tanker_emissions(Int2Num(6900), total_weight_diesel_tons, Int2Num(1)),
            calculate_tanker_emissions(Int2Num(2415),
                NumDiv(total_weight_diesel_tons, Int2Num(2)), Int2Num(2)),
            calculate_truck_emissions(Int2Num(1030),
                NumDiv(total_weight_diesel_tons, Int2Num(9)), Int2Num(9))>>))

\* The statements run in the order wind (476, 496), pv, bess (512), diesel; the
\* first exception ends the call and nothing is returned.
transportation_scenario_emissions(target_solar, turbine_power, target_wind, target_bess_power, target_bess_energy, target_diesel) ==
    LET wind == wind_trip_emissions(target_wind, turbine_power)
        pv == pv_trip_emissions(target_solar)
        bess == bess_trip_emissions(target_bess_energy)
        diesel == diesel_trip_emissions(target_diesel)
    IN  IF wind.status # "ok" THEN wind
        ELSE IF pv.status # "ok" THEN pv
        ELSE IF bess.status # "ok" THEN bess
        ELSE IF diesel.status # "ok" THEN diesel
        ELSE Return([wind_turbines_transport |-> wind.value,
                     pv_panels_transport     |-> pv.value,
                     bess_units_transport    |-> bess.value,
                     diesel_transport        |-> diesel.value])

-----------------------------------------------------------------------------
(* The calls.  The bounds of the arguments:                                *)

MaxMiles == 2     \* distances run from -1 to MaxMiles miles
MaxCargo == 2     \* cargo weights from -1/2 to MaxCargo/2 tons, in half tons
MaxCount == 2     \* trip and tanker counts from -1 to MaxCount
MaxGallons == 2   \* diesel volumes from -1 to MaxGallons gallons
MaxTarget == 1    \* targets from 0 to MaxTarget, turbine_power to MaxTarget + 1
MaxVal == 1       \* amounts held in hand-made records from 0 to MaxVal
MaxRecs == 2      \* sum_emissions gets 0 to MaxRecs records

Ints(lo, hi) == {Int2Num(i) : i \in lo..hi}
Halves(lo, hi) == {Quot(i, 2) : i \in lo..hi}

\* every dict with keys among `keys` and values among `vals`
RecordsOver(keys, vals) == UNION {[K -> vals] : K \in SUBSET keys}

Vals == Ints(0, MaxVal)

\* every sequence of at most n elements of S
SeqsUpTo(S, n) == UNION {[1..k -> S] : k \in 0..n}

\* the dicts sum_emissions is called with: the keys of its docstring's example
SumRecords == RecordsOver({"CO2", "NOx", "SOx"}, Vals)

\* the dicts calculate_co2_equivalent is called with
Co2Records == RecordsOver(Pollutants \cup {"NOx"}, Vals)

\* the records consolidate_scenario_emissions is called with: all three
\* pollutants, one of them missing, CO2 alone, none at all, or a fourth key; the
\* amounts are 10 v, v and v / 10 (the shape of the record
\* {CO2: 10, CH4: 1, N2O: 0.1})
Shaped(K, v) ==
    [k \in K |-> CASE k = "CO2" -> NumMul(Int2Num(10), v)
                   [] k = "CH4" -> v
                   [] k = "N2O" -> NumDiv(v, Int2Num(10))
                   [] OTHER -> NumMul(Int2Num(2), v)]
ConsKeySets ==
    {Pollutants, Pollutants \cup {"NOx"}, {"CO2"}, {}}
        \cup {Pollutants \ {p} : p \in Pollutants}
ConsRecords == {Shaped(K, v) : K \in ConsKeySets, v \in Vals}

TransportInputs == RecordsOver({"A", "B"}, ConsRecords)
SolarInputs == RecordsOver({"solar"}, Vals)
DieselInputs == RecordsOver({"diesel"}, Vals \cup ConsRecords)
SumInputs == SeqsUpTo(SumRecords, MaxRecs)

\* which arguments of sum_emissions are the same object: refs[i] is the object
\* of the i-th argument, the objects numbered in the order of their first use
Aliasings ==
    {refs \in SeqsUpTo(1..MaxRecs, MaxRecs) :
        \A i \in DOMAIN refs :
            \/ refs[i] = 1
            \/ \E j \in 1..(i - 1) : refs[j] \in {refs[i], refs[i] - 1}}

Start(f, a) ==
    /\ fn = f
    /\ args = a
    /\ pc = "call"
    /\ result = [status |-> "none"]
    /\ heap = <<>>

\* the call sum_emissions(*emission_dicts) whose i-th argument is the object
\* refs[i]; arguments that are one object hold one record
StartSum(emission_dicts, refs) ==
    /\ Len(refs) = Len(emission_dicts)
    /\ \A i, j \in DOMAIN refs : refs[i] = refs[j] => emission_dicts[i] = emission_dicts[j]
    /\ fn = "sum_emissions"
    /\ args = [emission_dicts |-> emission_dicts, refs |-> refs]
    /\ pc = "call"
    /\ result = [status |-> "none"]
    /\ heap = [o \in {refs[i] : i \in DOMAIN refs} |->
                  emission_dicts[CHOOSE i \in DOMAIN refs : refs[i] = o]]

\* the calls of the docstrings and of the documented reference scenarios
Examples ==
    \/ Start("calculate_truck_emissions",
             [miles |-> Int2Num(1000), cargo_weight_in_tons |-> Int2Num(20),
              quantity |-> Int2Num(5)])
    \/ Start("calculate_tanker_emissions",
             [miles |-> Int2Num(5000), cargo_weight |-> Int2Num(300),
              number_of_tankers |-> Int2Num(2)])
    \/ Start("calculate_emissions_from_diesel", [gallons_diesel |-> Int2Num(124000)])
    \/ Start("embodied_renewable_emissions",
             [target_solar |-> Int2Num(180), target_wind |-> Int2Num(570),
              target_bess_energy |-> Int2Num(3410), target_diesel |-> Int2Num(5600)])
    \/ StartSum(<<("CO2" :> Int2Num(100)) @@ ("NOx" :> Int2Num(50)),
                  ("CO2" :> Int2Num(200)) @@ ("SOx" :> Int2Num(30))>>,
                <<1, 2>>)
    \/ Start("consolidate_scenario_emissions",
             [transport_emissions |->
                ("A" :> [CO2 |-> Int2Num(10), CH4 |-> Int2Num(1), N2O |-> Dec(0, 1, 1)]),
              additional_emissions |->
                [solar  |-> Int2Num(50),
                 diesel |-> [CO2 |-> Int2Num(5), CH4 |-> Dec(0, 5, 1),
                             N2O |-> Dec(0, 5, 2)]]])
    \/ Start("transportation_scenario_emissions",
             [target_solar |-> Int2Num(5000), turbine_power |-> Int2Num(1000),
              target_wind |-> Int2Num(20000), target_bess_power |-> Int2Num(500),
              target_bess_energy |-> Int2Num(10000), target_diesel |-> Int2Num(2000)])

Init ==
    \/ Examples
    \/ \E m \in Ints(-1, MaxMiles), w \in Halves(-1, MaxCargo), q \in Ints(-1, MaxCount) :
          Start("calculate_truck_emissions",
                [miles |-> m, cargo_weight_in_tons |-> w, quantity |-> q])
    \/ \E r \in Co2Records :
          Start("calculate_co2_equivalent", [emissions_dictionary |-> r])
    \/ \E m \in Ints(-1, MaxMiles), w \in Halves(-1, MaxCargo), q \in Ints(-1, MaxCount) :
          Start("calculate_tanker_emissions",
                [miles |-> m, cargo_weight |-> w, number_of_tankers |-> q])
    \/ \E a \in Ints(-1, MaxMiles), b \in Ints(-1, MaxMiles) :
          Start("calculate_fuelused_emissions",
                [miles_ocean_tanker |-> a, miles_truck |-> b])
    \/ \E g \in Ints(-1, MaxGallons) :
          Start("calculate_emissions_from_diesel", [gallons_diesel |-> g])
    \/ \E s \in Ints(0, MaxTarget), w \in Ints(0, MaxTarget),
          b \in Ints(0, MaxTarget), d \in Ints(0, MaxGallons) :
          Start("embodied_renewable_emissions",
                [target_solar |-> s, target_wind |-> w,
                 target_bess_energy |-> b, target_diesel |-> d])
    \/ \E ds \in SumInputs, refs \in Aliasings :
          StartSum(ds, refs)
    \/ \E t \in TransportInputs,
          solar \in SolarInputs,
          diesel \in DieselInputs :
          Start("consolidate_scenario_emissions",
                [transport_emissions |-> t, additional_emissions |-> solar @@ diesel])
    \/ \E s \in Ints(0, MaxTarget), tp \in Ints(0, MaxTarget + 1), w \in Ints(0, MaxTarget),
          bp \in {Int2Num(0), Int2Num(MaxTarget)}, be \in Ints(0, MaxTarget),
          d \in Ints(0, MaxTarget) :
          Start("transportation_scenario_emissions",
                [target_solar |-> s, turbine_power |-> tp, target_wind |-> w,
                 target_bess_power |-> bp, target_bess_energy |-> be,
                 target_diesel |-> d])

\* the call runs to its return or to the exception it raises
Finish(r) ==
    /\ pc = "call"
    /\ result' = r
    /\ pc' = "return"
    /\ UNCHANGED <<fn, args, heap>>

Call_calculate_truck_emissions ==
    /\ fn = "calculate_truck_emissions"
    /\ Finish(Return(calculate_truck_emissions(
                  args.miles, args.cargo_weight_in_tons, args.quantity)))

Call_calculate_co2_equivalent ==
    /\ fn = "calculate_co2_equivalent"
    /\ Finish(calculate_co2_equivalent(args.emissions_dictionary))

Call_calculate_tanker_emissions ==
    /\ fn = "calculate_tanker_emissions"
    /\ Finish(Return(calculate_tanker_emissions(
                  args.miles, args.cargo_weight, args.number_of_tankers)))

Call_calculate_fuelused_emissions ==
    /\ fn = "calculate_fuelused_emissions"
    /\ Finish(Return(calculate_fuelused_emissions(
                  args.miles_ocean_tanker, args.miles_truck)))

Call_calculate_emissions_from_diesel ==
    /\ fn = "calculate_emissions_from_diesel"
    /\ Finish(Return(calculate_emissions_from_diesel(args.gallons_diesel)))

Call_embodied_renewable_emissions ==
    /\ fn = "embodied_renewable_emissions"
    /\ Finish(Return(embodied_renewable_emissions(
                  args.target_solar, args.target_wind,
                  args.target_bess_energy, args.target_diesel)))

Call_sum_emissions ==
    /\ fn = "sum_emissions"
    /\ pc = "call"
    /\ LET call == sum_emissions_call(heap, args.refs)
       IN  /\ heap' = call.heap
           /\ result' = [status |-> "ok", value |-> call.heap[call.ref], ref |-> call.ref]
    /\ pc' = "return"
    /\ UNCHANGED <<fn, args>>

Call_consolidate_scenario_emissions ==
    /\ fn = "consolidate_scenario_emissions"
    /\ Finish(consolidate_scenario_emissions(
                  args.transport_emissions, args.additional_emissions))

Call_transportation_scenario_emissions ==
    /\ fn = "transportation_scenario_emissions"
    /\ Finish(transportation_scenario_emissions(
                  args.target_solar, args.turbine_power, args.target_wind,
                  args.target_bess_power, args.target_bess_energy, args.target_diesel))

Next ==
    \/ Call_calculate_truck_emissions
    \/ Call_calculate_co2_equivalent
    \/ Call_calculate_tanker_emissions
    \/ Call_calculate_fuelused_emissions
    \/ Call_calculate_emissions_from_diesel
    \/ Call_embodied_renewable_emissions
    \/ Call_sum_emissions
    \/ Call_consolidate_scenario_emissions
    \/ Call_transportation_scenario_emissions

Spec == Init /\ [][Next]_vars

-----------------------------------------------------------------------------
(* Properties.  Returned holds once the call of f is over.                 *)

Returned(f) == fn = f /\ pc = "return"

\* the sum of the numbers f[k], k in DOMAIN f
RECURSIVE SumOf(_)
SumOf(f) ==
    IF DOMAIN f = {} THEN Int2Num(0)
    ELSE LET k == CHOOSE j \in DOMAIN f : TRUE
         IN  NumAdd(f[k], SumOf([j \in DOMAIN f \ {k} |-> f[j]]))

\* the dicts consolidation reads: the transport records and the dict-valued
\* entries of additional_emissions
ConsDicts(t, a) ==
    {t[u] : u \in DOMAIN t} \cup {a[k] : k \in {j \in DOMAIN a : IsDict(a[j])}}

\* pollutant p over the transport records, plus p over the dict-valued entries of
\* additional_emissions, plus (for CO2 alone) its bare scalars
ConsExpected(t, a, p) ==
    LET transport == SumOf([u \in {v \in DOMAIN t : p \in DOMAIN t[v]} |-> t[u][p]])
        nested == SumOf([k \in {j \in DOMAIN a : IsDict(a[j]) /\ p \in DOMAIN a[j]}
                            |-> a[k][p]])
        scalars == SumOf([k \in {j \in DOMAIN a : ~IsDict(a[j])} |-> a[k]])
    IN  NumAdd(NumAdd(transport, nested), IF p = "CO2" THEN scalars ELSE Int2Num(0))

\* the consolidation example of the specification
ConsExampleArgs ==
    [transport_emissions |->
        ("A" :> [CO2 |-> Int2Num(10), CH4 |-> Int2Num(1), N2O |-> Dec(0, 1, 1)]),
     additional_emissions |->
        [solar  |-> Int2Num(50),
         diesel |-> [CO2 |-> Int2Num(5), CH4 |-> Dec(0, 5, 1), N2O |-> Dec(0, 5, 2)]]]

\* C1: consolidate_scenario_emissions returns a record with exactly the keys CO2,
\* CH4, N2O; each pollutant is its sum over the transport records plus its sum
\* over the dict-valued entries of additional_emissions, and the bare scalars of
\* additional_emissions go to CO2 only.  It returns for every input whose records
\* hold no key but the three pollutants, and the example of the specification
\* yields {CO2: 65, CH4: 1.5, N2O: 0.15}.
C1_ConsolidateTotals ==
    Returned("consolidate_scenario_emissions") =>
        LET t == args.transport_emissions
            a == args.additional_emissions
        IN  /\ (\A d \in ConsDicts(t, a) : DOMAIN d \subseteq Pollutants)
                   => result.status = "ok"
            /\ result.status = "ok" =>
                   /\ DOMAIN result.value = Pollutants
                   /\ \A p \in Pollutants :
                          NumEq(result.value[p], ConsExpected(t, a, p))
            /\ args = ConsExampleArgs =>
                   /\ result.status = "ok"
                   /\ NumEq(result.value["CO2"], Int2Num(65))
                   /\ NumEq(result.value["CH4"], Dec(1, 5, 1))
                   /\ NumEq(result.value["N2O"], Dec(0, 15, 2))

\* a consolidation of two transport records, a bare scalar and a nested record
\* has returned, and the scalar shows in CO2
C1_Witness ==
    /\ Returned("consolidate_scenario_emissions")
    /\ result.status = "ok"
    /\ DOMAIN args.transport_emissions = {"A", "B"}
    /\ DOMAIN args.additional_emissions = {"solar", "diesel"}
    /\ ~IsDict(args.additional_emissions["solar"])
    /\ IsDict(args.additional_emissions["diesel"])
    /\ ~IsZero(args.additional_emissions["solar"])
    /\ ~IsZero(result.value["N2O"])

\* C2: sum_emissions returns a record whose keys are the union of the keys of its
\* inputs, and under each key the sum of that key's values over the inputs that
\* hold it; for two records A and B: A[p] + B[p], A[p] alone or B[p] alone.
C2_SumOverUnion ==
    Returned("sum_emissions") =>
        LET ds == args.emission_dicts
            keys == UNION {DOMAIN ds[i] : i \in 1..Len(ds)}
        IN  /\ result.status = "ok"
            /\ DOMAIN result.value = keys
            /\ \A p \in keys :
                   NumEq(result.value[p],
                         SumOf([i \in {j \in 1..Len(ds) : p \in DOMAIN ds[j]} |-> ds[i][p]]))
            /\ Len(ds) = 2 =>
                   \A p \in keys :
                       NumEq(result.value[p],
                             IF p \in DOMAIN ds[1] /\ p \in DOMAIN ds[2]
                             THEN NumAdd(ds[1][p], ds[2][p])
                             ELSE IF p \in DOMAIN ds[1] THEN ds[1][p] ELSE ds[2][p])

\* two records with a key in common and a key of its own each have been summed
C2_Witness ==
    /\ Returned("sum_emissions")
    /\ Len(args.emission_dicts) = 2
    /\ LET A == args.emission_dicts[1]
           B == args.emission_dicts[2]
       IN  /\ \E p \in DOMAIN A \cap DOMAIN B : ~IsZero(A[p]) /\ ~IsZero(B[p])
           /\ DOMAIN A \ DOMAIN B # {}
           /\ DOMAIN B \ DOMAIN A # {}
    /\ Cardinality(DOMAIN result.value) = 3

\* a record given to consolidation lacks one of CO2, CH4, N2O
ConsMissingKey(t, a) == \E d \in ConsDicts(t, a) : ~(Pollutants \subseteq DOMAIN d)

\* a record given to consolidation holds a key that is none of CO2, CH4, N2O
ConsUnknownKey(t, a) == \E d \in ConsDicts(t, a) : ~(DOMAIN d \subseteq Pollutants)

\* C3 as claimed: a record that lacks one of CO2, CH4, N2O makes
\* consolidate_scenario_emissions raise a missing-key error.
C3_AsClaimed ==
    (/\ Returned("consolidate_scenario_emissions")
     /\ ConsMissingKey(args.transport_emissions, args.additional_emissions))
        => result.status = "KeyError"

\* C3 amended: consolidate_scenario_emissions raises a key error exactly when a
\* record holds a key other than CO2, CH4, N2O.  A record that only lacks one of
\* the three raises nothing: the call returns a record with exactly the three
\* keys, to which that record adds nothing for the pollutant it lacks.
C3_KeyErrorOnlyForUnknownKey ==
    Returned("consolidate_scenario_emissions") =>
        LET t == args.transport_emissions
            a == args.additional_emissions
        IN  /\ result.status \in {"ok", "KeyError"}
            /\ result.status = "KeyError" <=> ConsUnknownKey(t, a)
            /\ (ConsMissingKey(t, a) /\ ~ConsUnknownKey(t, a)) =>
                   /\ result.status = "ok"
                   /\ DOMAIN result.value = Pollutants
                   /\ \A p \in Pollutants :
                          NumEq(result.value[p], ConsExpected(t, a, p))

\* a transport record without CH4 and a nested record without N2O were
\* consolidated, and the call returned a record
C3_Witness ==
    /\ Returned("consolidate_scenario_emissions")
    /\ "A" \in DOMAIN args.transport_emissions
    /\ DOMAIN args.transport_emissions["A"] = {"CO2", "N2O"}
    /\ "diesel" \in DOMAIN args.additional_emissions
    /\ DOMAIN args.additional_emissions["diesel"] = {"CO2", "CH4"}
    /\ result.status = "ok"
    /\ ~IsZero(result.value["CH4"])

\* C4: calculate_co2_equivalent raises a KeyError, and returns nothing, whenever
\* one of CO2, CH4, N2O is not a key of its argument; keys beyond the three
\* raise nothing.
C4_Co2eqKeyError ==
    Returned("calculate_co2_equivalent") =>
        LET d == args.emissions_dictionary
        IN  IF Pollutants \subseteq DOMAIN d
            THEN result.status = "ok"
            ELSE result = [status |-> "KeyError"]

\* a record with a fourth key that lacks a pollutant raised KeyError
C4_Witness ==
    /\ Returned("calculate_co2_equivalent")
    /\ DOMAIN args.emissions_dictionary = {"CO2", "N2O", "NOx"}
    /\ result.status = "KeyError"

\* the amounts of the records calculate_co2_equivalent is called with are the
\* integers 0..MaxVal: the integer an amount stands for
RECURSIVE NatVal(_)
NatVal(n) == IF n = <<>> THEN 0 ELSE Head(n) + Limb * NatVal(Tail(n))
IntVal(x) == IF x.neg THEN 0 - NatVal(x.num) ELSE NatVal(x.num)

\* C5: for a record with CO2, CH4 and N2O, calculate_co2_equivalent returns
\* CO2 * 1 + CH4 * 29.8 + N2O * 273: ten times the result is
\* 10 CO2 + 298 CH4 + 2730 N2O, and the result is CO2 when CH4 = N2O = 0.
C5_Co2eqValue ==
    (Returned("calculate_co2_equivalent") /\ result.status = "ok") =>
        LET d == args.emissions_dictionary
            co2 == IntVal(d["CO2"])
            ch4 == IntVal(d["CH4"])
            n2o == IntVal(d["N2O"])
        IN  /\ NumEq(NumMul(Int2Num(10), result.value),
                     Int2Num(10 * co2 + 298 * ch4 + 2730 * n2o))
            /\ (ch4 = 0 /\ n2o = 0) => NumEq(result.value, d["CO2"])

\* the conversion of a record with all three gases present and not zero returned
C5_Witness ==
    /\ Returned("calculate_co2_equivalent")
    /\ result.status = "ok"
    /\ \A p \in Pollutants : ~IsZero(args.emissions_dictionary[p])

\* C6: with turbine_power = 0, transportation_scenario_emissions ends in an
\* error and returns no mapping, whole or partial.
C6_ZeroTurbinePowerRaises ==
    (Returned("transportation_scenario_emissions") /\ IsZero(args.turbine_power))
        => result = [status |-> "ZeroDivisionError"]

\* a scenario with a wind target and turbine_power = 0 ended in ZeroDivisionError
C6_Witness ==
    /\ Returned("transportation_scenario_emissions")
    /\ IsZero(args.turbine_power)
    /\ ~IsZero(args.target_wind)
    /\ ~IsZero(args.target_bess_energy)
    /\ result.status = "ZeroDivisionError"

LegCalculators ==
    {"calculate_truck_emissions", "calculate_tanker_emissions",
     "calculate_fuelused_emissions", "calculate_emissions_from_diesel"}

\* C7: a record returned by a leg calculator has exactly the keys CO2, CH4, N2O,
\* and with every argument non-negative each of its three values is non-negative.
C7_LegRecordsFullAndNonNegative ==
    (fn \in LegCalculators /\ pc = "return") =>
        /\ result.status = "ok"
        /\ DOMAIN result.value = Pollutants
        /\ (\A a \in DOMAIN args : NumGeq0(args[a]))
               => \A p \in Pollutants : NumGeq0(result.value[p])

\* a tanker leg with a positive distance, cargo and count returned three
\* positive amounts
C7_Witness ==
    /\ Returned("calculate_tanker_emissions")
    /\ \A a \in DOMAIN args : NumGeq0(args[a]) /\ ~IsZero(args[a])
    /\ \A p \in Pollutants : NumGeq0(result.value[p]) /\ ~IsZero(result.value[p])

\* C8: leg emissions are linear in the count: the record for twice the count is
\* the pollutant-wise sum of two records for the count, for the truck and for
\* the tanker, and with count 0 every value is 0.
C8_LinearInCount ==
    /\ Returned("calculate_truck_emissions") =>
           /\ RecEq(calculate_truck_emissions(args.miles, args.cargo_weight_in_tons,
                                              NumMul(Int2Num(2), args.quantity)),
                    sum_emissions(<<result.value, result.value>>))
           /\ IsZero(args.quantity) => \A p \in Pollutants : IsZero(result.value[p])
    /\ Returned("calculate_tanker_emissions") =>
           /\ RecEq(calculate_tanker_emissions(args.miles, args.cargo_weight,
                                               NumMul(Int2Num(2), args.number_of_tankers)),
                    sum_emissions(<<result.value, result.value>>))
           /\ IsZero(args.number_of_tankers) =>
                  \A p \in Pollutants : IsZero(result.value[p])

\* a truck leg with a positive distance, cargo and count returned
C8_Witness ==
    /\ Returned("calculate_truck_emissions")
    /\ \A a \in DOMAIN args : NumGeq0(args[a]) /\ ~IsZero(args[a])
    /\ \A p \in Pollutants : ~IsZero(result.value[p])

\* the truck's emissions factors, g per mmBtu
C9_Factor(p) ==
    CASE p = "CO2" -> Dec(89, 77044869, 8)
      [] p = "CH4" -> Dec(0, 109408298, 9)
      [] p = "N2O" -> Dec(0, 355609, 9)

\* C9: calculate_truck_emissions(m, w, n)[p] is
\* ((f (684 w) / 138700 * 138700 / 1e6 * m) + (f * 13567 / 138700 * 138700 / 1e6 * m)) * n,
\* that is f (684 w + 13567) m n / 1e6, with f the truck's factor of p: the
\* loaded direction grows with the cargo, the empty return does not, and both
\* run over the distance m.
C9_TruckFormula ==
    Returned("calculate_truck_emissions") =>
        LET m == args.miles
            w == args.cargo_weight_in_tons
            n == args.quantity
            million == Int2Num(1000000)
            d == Int2Num(138700)
            loaded(f) ==
                NumMul(NumDiv(NumMul(NumDiv(NumMul(f, NumMul(Int2Num(684), w)), d), d),
                              million), m)
            empty(f) ==
                NumMul(NumDiv(NumMul(NumDiv(NumMul(f, Int2Num(13567)), d), d),
                              million), m)
        IN  \A p \in Pollutants :
                /\ NumEq(result.value[p],
                         NumMul(NumAdd(loaded(C9_Factor(p)), empty(C9_Factor(p))), n))
                /\ NumEq(result.value[p],
                         NumDiv(NumMul(NumMul(NumMul(C9_Factor(p),
                                    NumAdd(NumMul(Int2Num(684), w), Int2Num(13567))),
                                    m), n),
                                million))

\* the reference call calculate_truck_emissions(1000, 20, 5) returned
C9_Witness ==
    /\ Returned("calculate_truck_emissions")
    /\ NumEq(args.miles, Int2Num(1000))
    /\ NumEq(args.cargo_weight_in_tons, Int2Num(20))
    /\ NumEq(args.quantity, Int2Num(5))
    /\ result.status = "ok"

\* the three legs of a component of total weight W whose truck leg makes n
\* trips over truck_miles: a tanker with all of W, two tankers with W / 2 each,
\* and n truck trips with W / n each
ThreeLegs(W, truck_miles, n) ==
    sum_emissions(<<
        calculate_tanker_emissions(Int2Num(6900), W, Int2Num(1)),
        calculate_tanker_emissions(Int2Num(2415), NumDiv(W, Int2Num(2)), Int2Num(2)),
        calculate_truck_emissions(truck_miles, NumDiv(W, n), n)>>)

\* C10: transportation_scenario_emissions returns a mapping with exactly the
\* keys wind_turbines_transport, pv_panels_transport, bess_units_transport and
\* diesel_transport; each value is the pollutant-wise sum of three legs for the
\* component's total weight W (one tanker with W, two tankers with W / 2, and a
\* truck leg whose cargo per trip times its trips is W) and of nothing else.
C10_FourComponentsOfThreeLegs ==
    (Returned("transportation_scenario_emissions") /\ result.status = "ok") =>
        LET num_turbines == NumDiv(args.target_wind, args.turbine_power)
            W_wind == NumMul(num_turbines, Dec(19, 8, 1))
            n_wind == NumMul(num_turbines, Int2Num(7))
            W_pv == NumDiv(NumMul(args.target_solar, Int2Num(160)), Int2Num(907185))
            n_bess == NumDiv(args.target_bess_energy, Int2Num(1240))
            W_bess == NumMul(n_bess, Int2Num(18))
            W_diesel == NumDiv(NumMul(args.target_diesel, Dec(6, 5, 1)), Int2Num(2000))
        IN  /\ DOMAIN result.value =
                   {"wind_turbines_transport", "pv_panels_transport",
                    "bess_units_transport", "diesel_transport"}
            /\ RecEq(result.value["wind_turbines_transport"],
                     ThreeLegs(W_wind, Int2Num(1030), n_wind))
            /\ NumEq(NumMul(NumDiv(W_wind, n_wind), n_wind), W_wind)
            /\ RecEq(result.value["pv_panels_transport"],
                     ThreeLegs(W_pv, Int2Num(1030), Int2Num(9)))
            /\ NumEq(NumMul(NumDiv(W_pv, Int2Num(9)), Int2Num(9)), W_pv)
            /\ RecEq(result.value["bess_units_transport"],
                     ThreeLegs(W_bess, Int2Num(100), n_bess))
            /\ NumEq(NumMul(NumDiv(W_bess, n_bess), n_bess), W_bess)
            /\ RecEq(result.value["diesel_transport"],
                     ThreeLegs(W_diesel, Int2Num(1030), Int2Num(9)))
            /\ NumEq(NumMul(NumDiv(W_diesel, Int2Num(9)), Int2Num(9)), W_diesel)

\* a scenario with every target above zero returned its four records
C10_Witness ==
    /\ Returned("transportation_scenario_emissions")
    /\ result.status = "ok"
    /\ \A a \in DOMAIN args : ~IsZero(args[a])
    /\ \A c \in DOMAIN result.value :
           \A p \in Pollutants : ~IsZero(result.value[c][p])

C12_SumLeavesArguments ==
    Returned("sum_emissions") =>
        /\ result.status = "ok"
        /\ \A i \in DOMAIN args.refs :
               /\ DOMAIN heap[args.refs[i]] = DOMAIN args.emission_dicts[i]
               /\ \A k \in DOMAIN args.emission_dicts[i] :
                      heap[args.refs[i]][k] = args.emission_dicts[i][k]
        /\ \A i \in DOMAIN args.refs : result.ref # args.refs[i]
        /\ result.ref \in DOMAIN heap
        /\ heap[result.ref] = result.value

\* sum_emissions returned from a call that passed one record with an amount
\* above zero twice, and the total differs from that record
C12_Witness ==
    /\ Returned("sum_emissions")
    /\ Len(args.refs) = 2
    /\ args.refs[1] = args.refs[2]
    /\ \E k \in DOMAIN args.emission_dicts[1] : ~IsZero(args.emission_dicts[1][k])
    /\ result.value # args.emission_dicts[1]

\* C13: with every target non-negative (target_wind = 0 and
\* target_bess_energy = 0 included) and turbine_power above zero,
\* transportation_scenario_emissions raises nothing and returns its four
\* component records; a division error comes from turbine_power = 0 alone.
C13_ZeroTargetsComplete ==
    Returned("transportation_scenario_emissions") =>
        LET targets == {args.target_solar, args.target_wind,
                        args.target_bess_energy, args.target_diesel}
        IN  /\ ((\A t \in targets : NumGeq0(t))
                    /\ NumGeq0(args.turbine_power) /\ ~IsZero(args.turbine_power))
                  => /\ result.status = "ok"
                     /\ DOMAIN result.value =
                            {"wind_turbines_transport", "pv_panels_transport",
                             "bess_units_transport", "diesel_transport"}
                     /\ \A c \in DOMAIN result.value : DOMAIN result.value[c] = Pollutants
            /\ result.status = "ZeroDivisionError" => IsZero(args.turbine_power)

\* C14: calculate_fuelused_emissions(a, b) is, pollutant by pollutant, the sum
\* of a residual-oil part that is the result for (a, 0) and a diesel part that
\* is the result for (0, b), and the diesel part is what
\* calculate_emissions_from_diesel returns for b / 5.6 gallons.
C14_FuelusedIsResidPlusDiesel ==
    Returned("calculate_fuelused_emissions") =>
        LET a == args.miles_ocean_tanker
            b == args.miles_truck
            zero == Int2Num(0)
            resid == calculate_fuelused_emissions(a, zero)
            diesel == calculate_fuelused_emissions(zero, b)
            produced == calculate_emissions_from_diesel(NumDiv(b, Dec(5, 6, 1)))
        IN  /\ result.status = "ok"
            /\ \A p \in Pollutants :
                   /\ NumEq(result.value[p], NumAdd(resid[p], diesel[p]))
                   /\ NumEq(result.value[p], NumAdd(resid[p], produced[p]))
            /\ RecEq(diesel, produced)
            /\ IsZero(a) => RecEq(result.value, produced)
            /\ IsZero(b) => RecEq(result.value, resid)

\* calculate_fuelused_emissions returned for tanker miles and truck miles above
\* zero, with a residual-oil part and a diesel part that are not zero
C14_Witness ==
    /\ Returned("calculate_fuelused_emissions")
    /\ NumGeq0(args.miles_ocean_tanker) /\ ~IsZero(args.miles_ocean_tanker)
    /\ NumGeq0(args.miles_truck) /\ ~IsZero(args.miles_truck)
    /\ \A p \in Pollutants :
           /\ ~IsZero(calculate_fuelused_emissions(args.miles_ocean_tanker, Int2Num(0))[p])
           /\ ~IsZero(calculate_emissions_from_diesel(NumDiv(args.miles_truck, Dec(5, 6, 1)))[p])
           /\ ~IsZero(result.value[p])

=============================================================================
